---- MODULE Spec2Model ----
(***************************************************************************)
(* Model of pymatviz/utils/plotting.py: the figure-backend adapter layer   *)
(* (validate_fig, get_font_color, annotate, get_fig_xy_range) and the      *)
(* colour utilities (luminance, pick_max_contrast_color, pretty_label).    *)
(*                                                                         *)
(* The state is the part of the two plotting libraries the functions read  *)
(* and write: pyplot's figure registry and current figure, every figure's  *)
(* axes stack, every axes' text colours and artists, the plotly figure     *)
(* (traces, layout, annotations), the plotly default template, and the     *)
(* record of the last call (operation, arguments, outcome).                *)
(*                                                                         *)
(* Real numbers are kept exact as integers: a colour channel c is the      *)
(* integer c * Unit, a luminance L is the integer L * LumOne.                *)
(***************************************************************************)
EXTENDS Integers, Sequences, FiniteSets, TLC

VARIABLES
    figState,     \* pyplot: figure id -> "open" | "none" (no such figure yet)
    figAxes,      \* matplotlib: figure id -> its axes stack (last = current axes)
    curFig,       \* pyplot: the current figure's id, 0 when there is none
    axColors,     \* matplotlib: axes id -> colours of its text elements
    axArtists,    \* matplotlib: axes id -> the anchored-text boxes added to it
    rcTextColor,  \* matplotlib: rcParams["text.color"], NoColor when unset
    pfig,         \* plotly: the go.Figure (data, layout, annotations)
    pioDefault,   \* plotly: pio.templates.default
    kaleido,      \* plotly: TRUE iff full_figure_for_development can render
    call          \* the last call: operation, arguments, outcome

vars == <<figState, figAxes, curFig, axColors, axArtists, rcTextColor,
          pfig, pioDefault, kaleido, call>>

world == <<figState, figAxes, curFig, axColors, axArtists, rcTextColor,
           pfig, pioDefault, kaleido>>

-----------------------------------------------------------------------------
(* Outcomes of a call: a returned value or a raised exception.             *)

Ok(v) == [exc |-> "", val |-> v]
Raise(e) == [exc |-> e]
Returned(r) == r.exc = ""

(* Python's None in a position that otherwise holds a string.              *)
None == "None"
NoColor == None

-----------------------------------------------------------------------------
(* Bounds of the model.                                                    *)

MaxExtra == 1        \* components after r,g,b in an "rgb(...)" string or a tuple
MaxFigs == 2         \* matplotlib figures that exist initially
MaxAxesPerFig == 2   \* axes a figure has initially
MaxBoxes == 1        \* anchored-text boxes on the axes before a call of annotate
MaxTraces == 3       \* traces of the plotly figure
MaxPoints == 2       \* data points of a trace
MaxAnnotations == 1  \* annotations of the plotly figure before a call of annotate

-----------------------------------------------------------------------------
(* Exact arithmetic.                                                       *)

Unit == 2 * 255          \* the channel value 1.0
CoefR == 2126            \* the WCAG 2.0 coefficients, times 10000
CoefG == 7152
CoefB == 722
LumOne == Unit * 10000   \* the luminance 1.0

-----------------------------------------------------------------------------
(* Strings that are parsed are sequences of tokens: one token per          *)
(* character, except that a numeric literal is a single token.             *)

NumLits == {"0", "0.5", "1", "255", "300"}

RECURSIVE StripLeft(_, _)
StripLeft(s, chars) ==
    IF s # <<>> /\ Head(s) \in chars THEN StripLeft(Tail(s), chars) ELSE s

RECURSIVE StripRight(_, _)
StripRight(s, chars) ==
    IF s # <<>> /\ s[Len(s)] \in chars
    THEN StripRight(SubSeq(s, 1, Len(s) - 1), chars) ELSE s

(* str.strip(chars) *)
strip(s, chars) == StripRight(StripLeft(s, chars), chars)

(* str.split(sep): the pieces between the separators, at least one piece *)
RECURSIVE split(_, _)
split(s, sep) ==
    IF \E i \in 1..Len(s) : s[i] = sep
    THEN LET i == CHOOSE j \in 1..Len(s) :
                      s[j] = sep /\ \A k \in 1..(j - 1) : s[k] # sep
         IN <<SubSeq(s, 1, i - 1)>> \o split(SubSeq(s, i + 1, Len(s)), sep)
    ELSE <<s>>

(* str.startswith(prefix) *)
startswith(s, prefix) ==
    Len(s) >= Len(prefix) /\ SubSeq(s, 1, Len(prefix)) = prefix

(* float(piece): defined for a piece that is one numeric literal *)
IsFloat(piece) == Len(piece) = 1 /\ piece[1] \in NumLits

float(piece) ==
    CASE piece[1] = "0" -> 0
      [] piece[1] = "0.5" -> Unit \div 2
      [] piece[1] = "1" -> Unit
      [] piece[1] = "255" -> 255 * Unit
      [] piece[1] = "300" -> 300 * Unit

-----------------------------------------------------------------------------
(* Colours (ColorType): a string or an RGB(A) tuple.                       *)

StrColor(s) == [kind |-> "str", s |-> s]
TupleColor(t) == [kind |-> "tuple", t |-> t]

RECURSIVE Join(_, _)
Join(pieces, sep) ==
    IF Len(pieces) = 0 THEN <<>>
    ELSE IF Len(pieces) = 1 THEN <<pieces[1]>>
    ELSE <<pieces[1], sep>> \o Join(Tail(pieces), sep)

(* the string "rgb(c1,c2,...)" for the literals comps *)
RgbString(comps) == <<"r", "g", "b", "(">> \o Join(comps, ",") \o <<")">>

(* the string "rgba(c1,c2,...)" *)
RgbaString(comps) == <<"r", "g", "b", "a", "(">> \o Join(comps, ",") \o <<")">>

NamedColors == {"white", "black", "red", "lime", "blue", "gray"}

(* matplotlib's table of named colours, as RGBA *)
NamedRGBA(name) ==
    CASE name = "white" -> <<Unit, Unit, Unit, Unit>>
      [] name = "black" -> <<0, 0, 0, Unit>>
      [] name = "red" -> <<Unit, 0, 0, Unit>>
      [] name = "lime" -> <<0, Unit, 0, Unit>>
      [] name = "blue" -> <<0, 0, Unit, Unit>>
      [] name = "gray" -> <<Unit \div 2, Unit \div 2, Unit \div 2, Unit>>

(* matplotlib.colors.to_rgba: a named colour, or a tuple of 3 or 4 channels *)
(* in [0, 1]; anything else raises ValueError.                              *)
to_rgba(color) ==
    IF color.kind = "str"
    THEN IF Len(color.s) = 1 /\ color.s[1] \in NamedColors
         THEN Ok(NamedRGBA(color.s[1]))
         ELSE Raise("ValueError")
    ELSE IF Len(color.t) \in {3, 4}
            /\ \A i \in 1..Len(color.t) : color.t[i] >= 0 /\ color.t[i] <= Unit
         THEN Ok(IF Len(color.t) = 3 THEN color.t \o <<Unit>> ELSE color.t)
         ELSE Raise("ValueError")

(* r, g, b, *_a = map(float, color.strip("rgb()").split(",")) *)
ParseRgb(color) ==
    LET pieces == split(strip(color.s, {"r", "g", "b", "(", ")"}), ",")
    IN IF (\E i \in 1..Len(pieces) : ~IsFloat(pieces[i])) \/ Len(pieces) < 3
       THEN Raise("ValueError")
       ELSE Ok([i \in 1..Len(pieces) |-> float(pieces[i])])

luminance_mut_never_scale(color) ==
    IF color.kind = "str" /\ startswith(color.s, <<"r", "g", "b", "(">>)
    THEN LET p == ParseRgb(color)
         IN IF ~Returned(p) THEN p
            ELSE Ok((CoefR * p.val[1] + CoefG * p.val[2] + CoefB * p.val[3]))
    ELSE LET p == to_rgba(color)
         IN IF ~Returned(p) THEN p
            ELSE Ok(CoefR * p.val[1] + CoefG * p.val[2] + CoefB * p.val[3])

(* luminance(color): the value is the luminance times LumOne *)
luminance(color) ==
    IF color.kind = "str" /\ startswith(color.s, <<"r", "g", "b", "(">>)
    THEN LET p == ParseRgb(color)
         IN IF ~Returned(p) THEN p
            ELSE LET scale == p.val[1] > Unit \/ p.val[2] > Unit \/ p.val[3] > Unit
                     r == IF scale THEN p.val[1] \div 255 ELSE p.val[1]
                     g == IF scale THEN p.val[2] \div 255 ELSE p.val[2]
                     b == IF scale THEN p.val[3] \div 255 ELSE p.val[3]
                 IN Ok(CoefR * r + CoefG * g + CoefB * b)
    ELSE LET p == to_rgba(color)
         IN IF ~Returned(p) THEN p
            ELSE Ok(CoefR * p.val[1] + CoefG * p.val[2] + CoefB * p.val[3])

pick_max_contrast_color_mut_geq(bg_color, luminance_threshold, colors) ==
    LET bg_luminance == luminance(bg_color)
    IN IF ~Returned(bg_luminance) THEN bg_luminance
       ELSE Ok(IF bg_luminance.val >= luminance_threshold
               THEN colors[2] ELSE colors[1])

(* pick_max_contrast_color: colors is the pair (light, dark) *)
pick_max_contrast_color(bg_color, luminance_threshold, colors) ==
    LET bg_luminance == luminance(bg_color)
    IN IF ~Returned(bg_luminance) THEN bg_luminance
       ELSE Ok(IF bg_luminance.val > luminance_threshold
               THEN colors[2] ELSE colors[1])

(* the default arguments of pick_max_contrast_color *)
DefaultThreshold == 3 * (LumOne \div 10)
DefaultColors == <<"white", "black">>

-----------------------------------------------------------------------------
(* pretty_label *)

MATPLOTLIB == "matplotlib"
PLOTLY == "plotly"
BACKENDS == {MATPLOTLIB, PLOTLY}

symbol_mapping ==
    [key \in {"R2", "R2_adj"} |->
        IF key = "R2"
        THEN [b \in BACKENDS |->
                 IF b = MATPLOTLIB THEN "$R^2$" ELSE "R<sup>2</sup>"]
        ELSE [b \in BACKENDS |->
                 IF b = MATPLOTLIB THEN "$R^2_{adj}$"
                 ELSE "R<sup>2</sup><sub>adj</sub>"]]

pretty_label_mut_late_check(key, backend) ==
    IF key \notin DOMAIN symbol_mapping THEN Ok(key)
    ELSE IF backend \notin BACKENDS THEN Raise("ValueError")
    ELSE Ok(symbol_mapping[key][backend])

pretty_label(key, backend) ==
    IF backend \notin BACKENDS THEN Raise("ValueError")
    ELSE IF key \in DOMAIN symbol_mapping
            /\ backend \in DOMAIN symbol_mapping[key]
         THEN Ok(symbol_mapping[key][backend])
         ELSE Ok(key)

-----------------------------------------------------------------------------
(* matplotlib and pyplot.  A figure is an id of FigIds, an axes an id of   *)
(* AxIds.  The ids beyond the initial ones are there for the figures and   *)
(* axes that gcf() and gca() create.                                       *)

FigIds == 1..(MaxFigs + 1)
AxIds == 1..((MaxFigs + 1) * MaxAxesPerFig)

Range(s) == {s[i] : i \in DOMAIN s}
Last(s) == s[Len(s)]
Min(S) == CHOOSE v \in S : \A w \in S : v <= w
Max(S) == CHOOSE v \in S : \A w \in S : v >= w

(* the part of the state that gcf() and gca() read and write *)
Mpl == [figState |-> figState, figAxes |-> figAxes, curFig |-> curFig]

AxesInUse(m) == UNION {Range(m.figAxes[f]) : f \in FigIds}

(* the figure an axes belongs to *)
AxFig(m, a) == CHOOSE f \in FigIds : a \in Range(m.figAxes[f])

(* Figure.gca(): the figure's current axes; a figure without axes gets a   *)
(* new one (add_subplot).  The result is the new state and the axes.       *)
Figure_gca(m, f) ==
    IF m.figAxes[f] # <<>>
    THEN [m |-> m, ax |-> Last(m.figAxes[f])]
    ELSE LET a == Min(AxIds \ AxesInUse(m))
         IN [m |-> [m EXCEPT !.figAxes[f] = <<a>>], ax |-> a]

(* plt.gcf(): the current figure; without one, plt.figure() opens a new    *)
(* figure and makes it current.                                            *)
plt_gcf(m) ==
    IF m.curFig # 0
    THEN [m |-> m, fig |-> m.curFig]
    ELSE LET f == Min({g \in FigIds : m.figState[g] = "none"})
         IN [m |-> [m EXCEPT !.figState[f] = "open", !.curFig = f], fig |-> f]

(* plt.gca(): the current axes of the current figure *)
plt_gca(m) == LET g == plt_gcf(m) IN Figure_gca(g.m, g.fig)

(* the x and y limits of an axes *)
get_xlim(a) == <<0, a>>
get_ylim(a) == <<0, 10 * a>>

(* Figure handles (AxOrFig), None, and values that are no figure handle.   *)
NoneHandle == [kind |-> "None", id |-> 0]
DictHandle == [kind |-> "dict", id |-> 0]
PlotlyHandle == [kind |-> "go.Figure", id |-> 0]
AxesHandle(a) == [kind |-> "Axes", id |-> a]
FigureHandle(f) == [kind |-> "Figure", id |-> f]

IsMatplotlib(h) == h.kind \in {"Axes", "Figure"}
IsPlotly(h) == h.kind = "go.Figure"
IsSupported(h) == IsMatplotlib(h) \/ IsPlotly(h)

(* the handles a caller can hold in the state m *)
Handles(m) ==
    {NoneHandle, DictHandle, PlotlyHandle}
    \cup {AxesHandle(a) : a \in AxesInUse(m)}
    \cup {FigureHandle(f) : f \in {g \in FigIds : m.figState[g] # "none"}}

-----------------------------------------------------------------------------
(* Font colour.                                                            *)

TextColors == {"auto", "red", "blue"}

(* truthiness of an optional string *)
Truthy(c) == c # None /\ c # ""

(* pio.templates[name].layout.font.color of the registered templates *)
TemplateNames == {"plotly", "plotly_dark", "none"}
RegisteredFontColor(name) ==
    CASE name = "plotly" -> "#2a3f5f"
      [] name = "plotly_dark" -> "#f2f5fa"
      [] name = "none" -> NoColor

_get_plotly_font_color_mut_template_first(fig) ==
    IF Truthy(fig.template_font_color) THEN fig.template_font_color
    ELSE IF Truthy(fig.layout_font_color) THEN fig.layout_font_color
    ELSE LET template_color ==
                 IF pioDefault.isStr THEN RegisteredFontColor(pioDefault.name)
                 ELSE pioDefault.color
         IN IF Truthy(template_color) THEN template_color ELSE "black"

_get_plotly_font_color(fig) ==
    IF Truthy(fig.layout_font_color) THEN fig.layout_font_color
    ELSE IF Truthy(fig.template_font_color) THEN fig.template_font_color
    ELSE LET template_color ==
                 IF pioDefault.isStr THEN RegisteredFontColor(pioDefault.name)
                 ELSE pioDefault.color
         IN IF Truthy(template_color) THEN template_color ELSE "black"

(* _get_matplotlib_font_color: the new state (fig.gca() may add an axes)   *)
(* and the colour                                                          *)
_get_matplotlib_font_color(m, fig) ==
    LET g == IF fig.kind = "Axes" THEN [m |-> m, ax |-> fig.id]
             ELSE Figure_gca(m, fig.id)
        c == axColors[g.ax]
        tick_color == IF c.ticks # <<>> THEN c.ticks[1] ELSE None
        color ==
            IF c.xlabel # "auto" THEN c.xlabel
            ELSE IF c.ylabel # "auto" THEN c.ylabel
            ELSE IF c.title # "auto" THEN c.title
            ELSE IF tick_color # None /\ tick_color # "auto" THEN tick_color
            ELSE IF rcTextColor = NoColor THEN "black" ELSE rcTextColor
    IN [m |-> g.m, ret |-> Ok(color)]

(* get_font_color: the new state and the outcome *)
get_font_color(m, fig) ==
    IF IsPlotly(fig) THEN [m |-> m, ret |-> Ok(_get_plotly_font_color(pfig))]
    ELSE IF IsMatplotlib(fig) THEN _get_matplotlib_font_color(m, fig)
    ELSE [m |-> m, ret |-> Raise("TypeError")]

-----------------------------------------------------------------------------
(* Python dicts are functions from keys to values.                         *)

EmptyDict == [k \in {} |-> ""]

(* a | b *)
Merge(a, b) ==
    [k \in DOMAIN a \cup DOMAIN b |-> IF k \in DOMAIN b THEN b[k] ELSE a[k]]

(* the dict d without the key k *)
Without(d, k) == [j \in DOMAIN d \ {k} |-> d[j]]

-----------------------------------------------------------------------------
(* plotly figures.  A trace is [xaxis, pts]: xaxis is the axis reference   *)
(* ("x", "x2", ... as a sequence of characters, or NoneAxis) and pts the   *)
(* points (x, y) of the trace, a missing coordinate being Missing.         *)

NoneAxis == <<None>>
PrimaryAxis == <<"x">>
Missing == 0 - 1

(* annotation text: one string, or a sequence of strings *)
StrText(s) == [isStr |-> TRUE, s |-> s, seq |-> <<>>]
SeqText(q) == [isStr |-> FALSE, s |-> "", seq |-> q]

(* any(getattr(trace, "xaxis", None) not in (None, "x") for trace in fig.data) *)
IsFaceted(fig) ==
    \E i \in 1..Len(fig.data) : fig.data[i].xaxis \notin {NoneAxis, PrimaryAxis}

(* the annotation of one trace of a faceted figure: an outcome holding the *)
(* annotations to add (none or one)                                        *)
FacetAnnotation(trace, idx, text, text_defaults, kwargs) ==
    IF ~text.isStr /\ idx > Len(text.seq) THEN Raise("IndexError")
    ELSE LET sub_text == IF text.isStr THEN text.s ELSE text.seq[idx]
         IN IF sub_text = "" THEN Ok(<<>>)
            ELSE IF trace.xaxis = NoneAxis THEN Raise("TypeError")
            ELSE LET subplot_idx == Tail(trace.xaxis)
                     xref == IF subplot_idx # <<>>
                             THEN <<"x">> \o subplot_idx \o <<" domain">>
                             ELSE <<"x", " domain">>
                     yref == IF subplot_idx # <<>>
                             THEN <<"y">> \o subplot_idx \o <<" domain">>
                             ELSE <<"y", " domain">>
                 IN Ok(<<[text |-> sub_text,
                          props |-> Merge(Merge([xref |-> xref, yref |-> yref],
                                                text_defaults), kwargs)]>>)

(* for idx, trace in enumerate(fig.data): the annotations after the loop,  *)
(* and the exception that ended it, if any                                 *)
RECURSIVE FacetLoop(_, _, _, _, _, _)
FacetLoop(idx, data, annotations, text, text_defaults, kwargs) ==
    IF idx > Len(data) THEN [annotations |-> annotations, exc |-> ""]
    ELSE LET a == FacetAnnotation(data[idx], idx, text, text_defaults, kwargs)
         IN IF ~Returned(a) THEN [annotations |-> annotations, exc |-> a.exc]
            ELSE FacetLoop(idx + 1, data, annotations \o a.val, text,
                           text_defaults, kwargs)

annotate_plotly_mut_no_text_check(text, fig, h, color, kwargs) ==
    LET text_defaults == [x |-> "0.02", y |-> "0.96", showarrow |-> "False",
                          font |-> [size |-> "16", color |-> color],
                          align |-> "left"]
    IN IF IsFaceted(fig)
       THEN LET r == FacetLoop(1, fig.data, fig.annotations, text,
                               text_defaults, kwargs)
            IN [pfig |-> [fig EXCEPT !.annotations = r.annotations],
                ret |-> IF r.exc = "" THEN Ok(h) ELSE Raise(r.exc)]
       ELSE [pfig |-> [fig EXCEPT !.annotations =
                 Append(@, [text |-> text.s,
                            props |-> Merge(Merge([xref |-> <<"paper">>,
                                                   yref |-> <<"paper">>],
                                                  text_defaults), kwargs)])],
             ret |-> Ok(h)]

(* annotate on a go.Figure: the figure afterwards and the outcome *)
annotate_plotly(text, fig, h, color, kwargs) ==
    LET text_defaults == [x |-> "0.02", y |-> "0.96", showarrow |-> "False",
                          font |-> [size |-> "16", color |-> color],
                          align |-> "left"]
    IN IF IsFaceted(fig)
       THEN LET r == FacetLoop(1, fig.data, fig.annotations, text,
                               text_defaults, kwargs)
            IN [pfig |-> [fig EXCEPT !.annotations = r.annotations],
                ret |-> IF r.exc = "" THEN Ok(h) ELSE Raise(r.exc)]
       ELSE IF ~text.isStr
            THEN [pfig |-> fig, ret |-> Raise("ValueError")]
            ELSE [pfig |-> [fig EXCEPT !.annotations =
                      Append(@, [text |-> text.s,
                                 props |-> Merge(Merge([xref |-> <<"paper">>,
                                                        yref |-> <<"paper">>],
                                                       text_defaults), kwargs)])],
                  ret |-> Ok(h)]

(* annotate on a matplotlib handle: the state and artists afterwards and   *)
(* the outcome                                                             *)
annotate_matplotlib(m, text, fig, color, kwargs) ==
    LET g == IF fig.kind = "Axes" THEN [m |-> m, ax |-> fig.id]
             ELSE plt_gca(m)
        text_defaults == [frameon |-> "False", loc |-> "upper left",
                          prop |-> [color |-> color]]
        text_box == [s |-> text, props |-> Merge(text_defaults, kwargs)]
    IN [m |-> g.m,
        artists |-> [axArtists EXCEPT ![g.ax] = Append(@, text_box)],
        ret |-> Ok(fig)]

(* annotate(text, fig, **kwargs): the matplotlib state, the artists and    *)
(* the plotly figure afterwards, and the outcome                           *)
annotate(text, fig, kwargs) ==
    LET fc == get_font_color(Mpl, fig)
    IN IF ~Returned(fc.ret)
       THEN [m |-> fc.m, artists |-> axArtists, pfig |-> pfig, ret |-> fc.ret]
       ELSE LET color == IF "color" \in DOMAIN kwargs THEN kwargs["color"]
                         ELSE fc.ret.val
                kw == Without(kwargs, "color")
            IN IF IsMatplotlib(fig)
               THEN LET r == annotate_matplotlib(fc.m, text, fig, color, kw)
                    IN [m |-> r.m, artists |-> r.artists, pfig |-> pfig,
                        ret |-> r.ret]
               ELSE IF IsPlotly(fig)
               THEN LET r == annotate_plotly(text, pfig, fig, color, kw)
                    IN [m |-> fc.m, artists |-> axArtists, pfig |-> r.pfig,
                        ret |-> r.ret]
               ELSE [m |-> fc.m, artists |-> axArtists, pfig |-> pfig,
                     ret |-> Raise("TypeError")]

-----------------------------------------------------------------------------
(* get_fig_xy_range and its decorator.                                     *)

RECURSIVE Pow10(_)
Pow10(v) == IF v = 0 THEN 1 ELSE 10 * Pow10(v - 1)

RECURSIVE SelectPts(_)
(* DataFrame({"x": trace.x, "y": trace.y}).dropna() *)
SelectPts(pts) ==
    IF pts = <<>> THEN <<>>
    ELSE IF Head(pts)[1] = Missing \/ Head(pts)[2] = Missing
         THEN SelectPts(Tail(pts))
         ELSE <<Head(pts)>> \o SelectPts(Tail(pts))

(* the range returned for bounds lo, hi derived from the data of an axis   *)
DataRange(axis_type, lo, hi) ==
    IF axis_type = "log" THEN <<Pow10(lo), Pow10(hi)>> ELSE <<lo, hi>>

(* the range returned for the bounds the renderer reports for an axis *)
RenderedRange(axis_type, range) ==
    IF axis_type = "log" THEN <<Pow10(range[1]), Pow10(range[2])>> ELSE range

(* the except branch: the ranges from the data of fig.data[trace_idx] *)
FallbackRange(fig, trace_idx) ==
    IF trace_idx + 1 > Len(fig.data) THEN Raise("IndexError")
    ELSE LET df_xy == SelectPts(fig.data[trace_idx + 1].pts)
             xs == {df_xy[i][1] : i \in 1..Len(df_xy)}
             ys == {df_xy[i][2] : i \in 1..Len(df_xy)}
         IN IF df_xy = <<>> THEN Raise("ValueError")
            ELSE Ok(<<DataRange(fig.xaxis_type, Min(xs), Max(xs)),
                      DataRange(fig.yaxis_type, Min(ys), Max(ys))>>)

(* the body of get_fig_xy_range: the matplotlib state afterwards, the      *)
(* figure the body settled on, and the outcome                             *)
get_fig_xy_range_body(m, fig, trace_idx) ==
    LET g == IF fig = NoneHandle THEN plt_gcf(m) ELSE [m |-> m, fig |-> 0]
        fig1 == IF fig = NoneHandle THEN FigureHandle(g.fig) ELSE fig
    IN IF IsMatplotlib(fig1)
       THEN LET a == IF fig1.kind = "Axes" THEN [m |-> g.m, ax |-> fig1.id]
                     ELSE Figure_gca(g.m, fig1.id)
            IN [m |-> a.m, fig |-> fig1,
                ret |-> Ok(<<get_xlim(a.ax), get_ylim(a.ax)>>)]
       ELSE IF ~IsPlotly(fig1)
       THEN [m |-> g.m, fig |-> fig1, ret |-> Raise("AttributeError")]
       ELSE IF kaleido
       THEN [m |-> g.m, fig |-> fig1,
             ret |-> Ok(<<RenderedRange(pfig.xaxis_type, pfig.dev_xrange),
                          RenderedRange(pfig.yaxis_type, pfig.dev_yrange)>>)]
       ELSE [m |-> g.m, fig |-> fig1, ret |-> FallbackRange(pfig, trace_idx)]

(* the handle the decorator looks at: kwargs.get("fig") *)
KwargsGetFig(mode, fig) == IF mode = "kw" THEN fig ELSE NoneHandle

validate_fig_mut_no_gate(m, mode, fig, trace_idx) ==
    LET r == get_fig_xy_range_body(m, fig, trace_idx)
    IN [m |-> r.m, ret |-> r.ret, fig |-> r.fig,
        body |-> <<[fig |-> fig, trace_idx |-> trace_idx]>>]

(* the wrapper of validate_fig around get_fig_xy_range, called with the    *)
(* handle fig passed by keyword (mode "kw") or by position (mode "pos"):   *)
(* the state afterwards, the outcome, the figure the body settled on, and  *)
(* the arguments of every execution of the body                            *)
validate_fig(m, mode, fig, trace_idx) ==
    LET kwfig == KwargsGetFig(mode, fig)
    IN IF kwfig # NoneHandle /\ ~IsSupported(kwfig)
       THEN [m |-> m, ret |-> Raise("TypeError"), fig |-> NoneHandle,
             body |-> <<>>]
       ELSE LET r == get_fig_xy_range_body(m, fig, trace_idx)
            IN [m |-> r.m, ret |-> r.ret, fig |-> r.fig,
                body |-> <<[fig |-> fig, trace_idx |-> trace_idx]>>]

-----------------------------------------------------------------------------
(* Initial states.                                                         *)

SeqsUpTo(S, n) == UNION {[1..k -> S] : k \in 0..n}

DefaultAxColors ==
    [xlabel |-> "auto", ylabel |-> "auto", title |-> "auto", ticks |-> <<"auto">>]

EmptyPlotlyFigure ==
    [data |-> <<>>, annotations |-> <<>>,
     layout_font_color |-> NoColor, template_font_color |-> NoColor,
     xaxis_type |-> "linear", yaxis_type |-> "linear",
     dev_xrange |-> <<0, 1>>, dev_yrange |-> <<0, 1>>]

StrTemplate(name) == [isStr |-> TRUE, name |-> name, color |-> NoColor]
ObjTemplate(color) == [isStr |-> FALSE, name |-> "", color |-> color]

NoMatplotlib ==
    /\ figState = [f \in FigIds |-> "none"]
    /\ figAxes = [f \in FigIds |-> <<>>]
    /\ curFig = 0
    /\ axColors = [a \in AxIds |-> DefaultAxColors]
    /\ axArtists = [a \in AxIds |-> <<>>]
    /\ rcTextColor = NoColor

NoPlotly ==
    /\ pfig = EmptyPlotlyFigure
    /\ pioDefault = StrTemplate("plotly")
    /\ kaleido = FALSE

(* the axes figure f has when it starts with n axes *)
InitialAxes(f, n) == [i \in 1..n |-> (f - 1) * MaxAxesPerFig + i]

(* nothing has been plotted *)
InitPure ==
    /\ NoMatplotlib
    /\ NoPlotly
    /\ call = [op |-> "init"]

(* up to MaxFigs matplotlib figures open in pyplot, each with up to        *)
(* MaxAxesPerFig axes; the current figure is one of them                   *)
Init ==
    /\ figState \in [FigIds -> {"none", "open"}]
    /\ figState[MaxFigs + 1] = "none"
    /\ \E n \in [FigIds -> 0..MaxAxesPerFig] :
          /\ \A f \in FigIds : figState[f] = "none" => n[f] = 0
          /\ figAxes = [f \in FigIds |-> InitialAxes(f, n[f])]
    /\ curFig \in {f \in FigIds : figState[f] = "open"}
                  \cup (IF \E f \in FigIds : figState[f] = "open" THEN {} ELSE {0})
    /\ axColors = [a \in AxIds |-> DefaultAxColors]
    /\ axArtists = [a \in AxIds |-> <<>>]
    /\ rcTextColor = NoColor
    /\ NoPlotly
    /\ call = [op |-> "init"]

(* one matplotlib figure with one axes whose text elements have any        *)
(* colours, and a plotly figure with any font colours                      *)
InitFont ==
    /\ figState = [f \in FigIds |-> IF f = 1 THEN "open" ELSE "none"]
    /\ figAxes = [f \in FigIds |-> IF f = 1 THEN <<1>> ELSE <<>>]
    /\ curFig = 1
    /\ \E c \in [xlabel : TextColors, ylabel : TextColors, title : TextColors,
                 ticks : SeqsUpTo(TextColors, 2)] :
          axColors = [a \in AxIds |-> IF a = 1 THEN c ELSE DefaultAxColors]
    /\ axArtists = [a \in AxIds |-> <<>>]
    /\ rcTextColor \in {NoColor, "white"}
    /\ \E lc \in {NoColor, "red"}, tc \in {NoColor, "blue"} :
          pfig = [EmptyPlotlyFigure EXCEPT !.layout_font_color = lc,
                                           !.template_font_color = tc]
    /\ pioDefault \in {StrTemplate(n) : n \in TemplateNames}
                      \cup {ObjTemplate(c) : c \in {NoColor, "green"}}
    /\ kaleido = FALSE
    /\ call = [op |-> "init"]

AxisRefs == {NoneAxis, PrimaryAxis, <<"x", "2">>}

(* a plotly figure with up to MaxTraces traces on any sub-plots *)
InitFacet ==
    /\ NoMatplotlib
    /\ \E axes \in SeqsUpTo(AxisRefs, MaxTraces) :
          pfig = [EmptyPlotlyFigure EXCEPT
                     !.data = [i \in 1..Len(axes) |->
                                  [xaxis |-> axes[i], pts |-> <<>>]]]
    /\ pioDefault = StrTemplate("plotly")
    /\ kaleido = FALSE
    /\ call = [op |-> "init"]

XValues == {Missing, 0, 2, 10}
YValues == {Missing, 0, 5}
AxisTypes == {"linear", "log"}
ReportedRanges == {<<0, 1>>, <<1, 3>>}

(* a plotly figure with up to one trace of up to MaxPoints points, on      *)
(* linear or logarithmic axes, with or without a renderer.  A logarithmic  *)
(* axis comes with positive data, and with data below 10: the powers of    *)
(* ten have to fit the 32-bit integers of the model checker.               *)
InitRange ==
    /\ NoMatplotlib
    /\ kaleido \in BOOLEAN
    /\ \E pts \in SeqsUpTo(XValues \X YValues, MaxPoints),
          n \in 0..1, xt \in AxisTypes, yt \in AxisTypes,
          xr \in ReportedRanges, yr \in ReportedRanges :
          /\ xt = "log" => \A i \in 1..Len(pts) : pts[i][1] \notin {0, 10}
          /\ yt = "log" => \A i \in 1..Len(pts) : pts[i][2] \notin {0, 10}
          /\ n = 0 => pts = <<>>
          /\ ~kaleido => xr = <<0, 1>> /\ yr = <<0, 1>>
          /\ pfig = [EmptyPlotlyFigure EXCEPT
                        !.data = [i \in 1..n |-> [xaxis |-> PrimaryAxis,
                                                  pts |-> pts]],
                        !.xaxis_type = xt, !.yaxis_type = yt,
                        !.dev_xrange = xr, !.dev_yrange = yr]
    /\ pioDefault = StrTemplate("plotly")
    /\ call = [op |-> "init"]

-----------------------------------------------------------------------------
(* The inputs of the calls.                                                *)

TupleChannels == {0, Unit, 2 * Unit}

ColorInputs ==
    {StrColor(RgbString(c \o e)) :
        c \in [1..3 -> NumLits], e \in SeqsUpTo({"0.5"}, MaxExtra)}
    \cup {StrColor(RgbString(<<"255", "0">>)),
          StrColor(RgbaString(<<"255", "0", "0", "1">>))}
    \cup {StrColor(<<n>>) : n \in NamedColors \cup {"notacolor"}}
    \cup {TupleColor(c \o e) :
            c \in [1..3 -> TupleChannels], e \in SeqsUpTo({Unit \div 2}, MaxExtra)}

(* the backgrounds pick_max_contrast_color is called with *)
BackgroundInputs ==
    {StrColor(RgbString(c)) : c \in [1..3 -> {"0", "255"}]}
    \cup {StrColor(<<n>>) : n \in NamedColors \cup {"notacolor"}}
    \cup {TupleColor(c \o e) :
            c \in [1..3 -> {0, Unit}], e \in SeqsUpTo({Unit \div 2}, MaxExtra)}

Thresholds == {CoefR * Unit, DefaultThreshold, LumOne}
ColorPairs == {DefaultColors, <<"yellow", "navy">>}

LabelKeys == {"R2", "R2_adj", "unknown_key", "MAE"}
BackendInputs == {MATPLOTLIB, PLOTLY, "bokeh", "Matplotlib"}

MatplotlibTexts == {StrText("A")}
MatplotlibKwargs == {EmptyDict, [color |-> "red", loc |-> "lower right"]}

PlotlyTexts ==
    {StrText(""), StrText("A")}
    \cup {SeqText(q) : q \in SeqsUpTo({"", "A"}, MaxTraces) \ {<<>>}}
PlotlyKwargs ==
    {EmptyDict,
     [color |-> "red", xref |-> <<"x", " domain">>, yref |-> <<"y", " domain">>]}

-----------------------------------------------------------------------------
(* The calls.                                                              *)

SetMpl(m) ==
    /\ figState' = m.figState
    /\ figAxes' = m.figAxes
    /\ curFig' = m.curFig

Luminance ==
    \E color \in ColorInputs :
        /\ call' = [op |-> "luminance", args |-> [color |-> color],
                    ret |-> luminance(color)]
        /\ UNCHANGED world

PickMaxContrastColor ==
    \E bg_color \in BackgroundInputs, luminance_threshold \in Thresholds,
       colors \in ColorPairs :
        /\ call' = [op |-> "pick_max_contrast_color",
                    args |-> [bg_color |-> bg_color,
                              luminance_threshold |-> luminance_threshold,
                              colors |-> colors],
                    ret |-> pick_max_contrast_color(bg_color,
                                luminance_threshold, colors)]
        /\ UNCHANGED world

PrettyLabel ==
    \E key \in LabelKeys, backend \in BackendInputs :
        /\ call' = [op |-> "pretty_label",
                    args |-> [key |-> key, backend |-> backend],
                    ret |-> pretty_label(key, backend)]
        /\ UNCHANGED world

GetFontColor ==
    \E fig \in Handles(Mpl) :
        LET r == get_font_color(Mpl, fig)
        IN /\ SetMpl(r.m)
           /\ call' = [op |-> "get_font_color", args |-> [fig |-> fig],
                       ret |-> r.ret]
           /\ UNCHANGED <<axColors, axArtists, rcTextColor, pfig, pioDefault,
                          kaleido>>

GetFigXYRange ==
    \E fig \in Handles(Mpl), mode \in {"kw", "pos"},
       trace_idx \in 0..Len(pfig.data) :
        LET r == validate_fig(Mpl, mode, fig, trace_idx)
        IN /\ SetMpl(r.m)
           /\ call' = [op |-> "get_fig_xy_range",
                       args |-> [fig |-> fig, mode |-> mode,
                                 trace_idx |-> trace_idx],
                       ret |-> r.ret, body |-> r.body, fig |-> r.fig]
           /\ UNCHANGED <<axColors, axArtists, rcTextColor, pfig, pioDefault,
                          kaleido>>

BoxCount(artists) ==
    LET RECURSIVE Sum(_)
        Sum(S) == IF S = {} THEN 0
                  ELSE LET a == CHOOSE b \in S : TRUE
                       IN Len(artists[a]) + Sum(S \ {a})
    IN Sum(AxIds)

(* annotate with the handles and arguments of figs, texts and kwargs *)
AnnotateWith(figs, texts, kwargs_set) ==
    \E text \in texts, fig \in figs, kwargs \in kwargs_set :
        LET r == annotate(text, fig, kwargs)
        IN /\ BoxCount(axArtists) < MaxBoxes
           /\ Len(pfig.annotations) < MaxAnnotations
           /\ SetMpl(r.m)
           /\ axArtists' = r.artists
           /\ pfig' = r.pfig
           /\ call' = [op |-> "annotate",
                       args |-> [text |-> text, fig |-> fig, kwargs |-> kwargs],
                       ret |-> r.ret]
           /\ UNCHANGED <<axColors, rcTextColor, pioDefault, kaleido>>

AnnotateMatplotlib ==
    AnnotateWith(Handles(Mpl) \ {PlotlyHandle}, MatplotlibTexts, MatplotlibKwargs)

AnnotatePlotly ==
    AnnotateWith({PlotlyHandle}, PlotlyTexts, PlotlyKwargs)

-----------------------------------------------------------------------------
(* Specifications.                                                         *)

Next == AnnotateMatplotlib \/ GetFontColor \/ GetFigXYRange
Spec == Init /\ [][Next]_vars

NextRead == GetFontColor \/ GetFigXYRange
SpecRead == Init /\ [][NextRead]_vars

NextPure == Luminance \/ PickMaxContrastColor \/ PrettyLabel
SpecPure == InitPure /\ [][NextPure]_vars

NextFont == GetFontColor
SpecFont == InitFont /\ [][NextFont]_vars

NextFacet == AnnotatePlotly
SpecFacet == InitFacet /\ [][NextFacet]_vars

NextRange == GetFigXYRange
SpecRange == InitRange /\ [][NextRange]_vars

-----------------------------------------------------------------------------
(* Properties.                                                             *)

IsCall(op) == call.op = op

(* C1, as stated: every call of get_fig_xy_range with a handle that is     *)
(* neither None nor a supported figure raises TypeError without running    *)
(* the body; with None or a supported handle the body runs exactly once    *)
(* with the arguments of the call, and None stands for the current figure. *)
C1_GateOnEveryCall ==
    IsCall("get_fig_xy_range") =>
        IF call.args.fig # NoneHandle /\ ~IsSupported(call.args.fig)
        THEN call.ret = Raise("TypeError") /\ call.body = <<>>
        ELSE /\ call.body = <<[fig |-> call.args.fig,
                               trace_idx |-> call.args.trace_idx]>>
             /\ call.args.fig = NoneHandle => call.fig = FigureHandle(curFig)

(* C1, amended: the gate inspects the handle passed as the keyword         *)
(* argument fig.  An unsupported handle passed by keyword raises TypeError *)
(* and the body does not run; None or a supported handle, however passed,  *)
(* runs the body exactly once with the arguments of the call, and for None *)
(* the body reads the limits of the current axes of pyplot's current       *)
(* figure; an unsupported handle passed by position reaches the body.      *)
C1_GateOnKeyword ==
    IsCall("get_fig_xy_range") =>
        LET unsupported ==
                call.args.fig # NoneHandle /\ ~IsSupported(call.args.fig)
            once == <<[fig |-> call.args.fig,
                       trace_idx |-> call.args.trace_idx]>>
        IN /\ (unsupported /\ call.args.mode = "kw") =>
                  call.ret = Raise("TypeError") /\ call.body = <<>>
           /\ (unsupported /\ call.args.mode = "pos") =>
                  call.body = once /\ call.ret # Raise("TypeError")
           /\ ~unsupported => call.body = once
           /\ call.args.fig = NoneHandle =>
                  /\ curFig # 0
                  /\ call.fig = FigureHandle(curFig)
                  /\ figAxes[curFig] # <<>>
                  /\ call.ret = Ok(<<get_xlim(Last(figAxes[curFig])),
                                     get_ylim(Last(figAxes[curFig]))>>)

(* a plain dict passed by keyword was rejected before the body ran *)
C1_Witness ==
    /\ IsCall("get_fig_xy_range")
    /\ call.args.fig = DictHandle
    /\ call.args.mode = "kw"
    /\ call.ret = Raise("TypeError")
    /\ call.body = <<>>

LitValue(lit) == float(<<lit>>)

(* 0.2126 R + 0.7152 G + 0.0722 B, times LumOne, of channels times Unit *)
Wcag(r, g, b) == CoefR * r + CoefG * g + CoefB * b

(* C3: luminance is 0.2126 R + 0.7152 G + 0.0722 B of the normalized       *)
(* channels; the channels of an "rgb(r,g,b[,a])" string are all divided by *)
(* 255 iff one of r, g, b exceeds 1, and the components after b are        *)
(* ignored; white gives 1.0, black 0.0 and "rgb(255,0,0)" 0.2126.          *)
C3_LuminanceFormula ==
    IsCall("luminance") =>
        /\ \A c \in [1..3 -> NumLits], e \in SeqsUpTo({"0.5"}, MaxExtra) :
              call.args.color = StrColor(RgbString(c \o e)) =>
                  LET r == LitValue(c[1])
                      g == LitValue(c[2])
                      b == LitValue(c[3])
                  IN call.ret =
                        Ok(IF r > Unit \/ g > Unit \/ b > Unit
                           THEN Wcag(r, g, b) \div 255
                           ELSE Wcag(r, g, b))
        /\ (call.args.color.kind = "tuple" /\ Returned(call.ret)) =>
              call.ret.val = Wcag(call.args.color.t[1], call.args.color.t[2],
                                  call.args.color.t[3])
        /\ call.args.color \in {TupleColor(<<Unit, Unit, Unit>>),
                                StrColor(<<"white">>)} => call.ret = Ok(LumOne)
        /\ call.args.color \in {TupleColor(<<0, 0, 0>>),
                                StrColor(<<"black">>)} => call.ret = Ok(0)
        /\ call.args.color = StrColor(RgbString(<<"255", "0", "0">>)) =>
              call.ret = Ok(2126 * Unit)

(* "rgb(255,0.5,0,0.5)": one channel above 1, one below, and an alpha *)
C3_Witness ==
    /\ IsCall("luminance")
    /\ call.args.color = StrColor(RgbString(<<"255", "0.5", "0", "0.5">>))
    /\ call.ret = Ok(CoefR * Unit + CoefG)

(* C4: whenever luminance returns, the value lies in [0, 1]. *)
C4_LuminanceInUnitRange ==
    (IsCall("luminance") /\ Returned(call.ret)) =>
        call.ret.val >= 0 /\ call.ret.val <= LumOne

(* the annotation added last to the plotly figure in the next state *)
NewAnnotation == pfig'.annotations[Len(pfig'.annotations)]

(* C5: annotate on a plotly figure that is not faceted raises ValueError   *)
(* and leaves the figure as it was when text is not a single string; when  *)
(* text is a string it appends exactly one annotation, whose xref and yref *)
(* are "paper" unless the keyword arguments give them.                     *)
C5_NonFaceted ==
    [][(/\ call'.op = "annotate"
        /\ call'.args.fig = PlotlyHandle
        /\ ~IsFaceted(pfig)) =>
           IF ~call'.args.text.isStr
           THEN call'.ret = Raise("ValueError") /\ pfig' = pfig
           ELSE /\ call'.ret = Ok(PlotlyHandle)
                /\ Len(pfig'.annotations) = Len(pfig.annotations) + 1
                /\ SubSeq(pfig'.annotations, 1, Len(pfig.annotations))
                      = pfig.annotations
                /\ pfig'.data = pfig.data
                /\ NewAnnotation.text = call'.args.text.s
                /\ NewAnnotation.props["xref"] =
                      (IF "xref" \in DOMAIN call'.args.kwargs
                       THEN call'.args.kwargs["xref"] ELSE <<"paper">>)
                /\ NewAnnotation.props["yref"] =
                      (IF "yref" \in DOMAIN call'.args.kwargs
                       THEN call'.args.kwargs["yref"] ELSE <<"paper">>)]_vars

(* a list of strings was refused on a figure that is not faceted *)
C5_Witness ==
    /\ IsCall("annotate")
    /\ call.args.fig = PlotlyHandle
    /\ ~IsFaceted(pfig)
    /\ pfig.data # <<>>
    /\ ~call.args.text.isStr
    /\ call.ret = Raise("ValueError")
    /\ pfig.annotations = <<>>

(* the sub-plot a trace is drawn on: the suffix of its x-axis reference,   *)
(* empty for the primary sub-plot, also when the reference is not set      *)
SubPlotOf(trace) == IF trace.xaxis = NoneAxis THEN <<>> ELSE Tail(trace.xaxis)

(* the sub-plots of a figure, in the order in which its traces name them *)
RECURSIVE SubPlotsFrom(_, _)
SubPlotsFrom(data, seen) ==
    IF data = <<>> THEN seen
    ELSE SubPlotsFrom(Tail(data),
                      IF SubPlotOf(Head(data)) \in Range(seen) THEN seen
                      ELSE Append(seen, SubPlotOf(Head(data))))
SubPlots(fig) == SubPlotsFrom(fig.data, <<>>)

(* C6: annotate on a faceted plotly figure with a sequence of texts        *)
(* aligned to the sub-plots returns without error, and every sub-plot gets *)
(* exactly one annotation, with xref "x<k> domain" and yref "y<k> domain", *)
(* when its text is not empty and none when it is.                         *)
C6_OnePerSubPlot ==
    [][(/\ call'.op = "annotate"
        /\ call'.args.fig = PlotlyHandle
        /\ IsFaceted(pfig)
        /\ ~call'.args.text.isStr
        /\ "xref" \notin DOMAIN call'.args.kwargs
        /\ Len(call'.args.text.seq) = Len(SubPlots(pfig))) =>
           LET subplots == SubPlots(pfig)
               added == SubSeq(pfig'.annotations, Len(pfig.annotations) + 1,
                               Len(pfig'.annotations))
           IN /\ call'.ret = Ok(PlotlyHandle)
              /\ \A i \in 1..Len(subplots) :
                    LET k == subplots[i]
                        mine == {j \in 1..Len(added) :
                                    /\ added[j].props["xref"]
                                          = <<"x">> \o k \o <<" domain">>
                                    /\ added[j].props["yref"]
                                          = <<"y">> \o k \o <<" domain">>}
                    IN Cardinality(mine) =
                          (IF call'.args.text.seq[i] # "" THEN 1 ELSE 0)
              /\ Len(added) = Cardinality({i \in 1..Len(subplots) :
                                              call'.args.text.seq[i] # ""})]_vars

(* the first colour of a priority list that is set, else the default *)
RECURSIVE FirstSet(_, _, _)
FirstSet(colors, unset, default) ==
    IF colors = <<>> THEN default
    ELSE IF Head(colors) \notin unset THEN Head(colors)
    ELSE FirstSet(Tail(colors), unset, default)

(* C7: get_font_color returns the first colour that is set, in the order   *)
(* layout font, figure template font, default template font, else "black", *)
(* for a plotly figure; in the order x-axis label, y-axis label, title,    *)
(* first x-tick label, skipping "auto", else rcParams text.color, else     *)
(* "black", for a matplotlib figure or axes; any other handle raises       *)
(* TypeError.                                                              *)
C7_FontColorPriority ==
    IsCall("get_font_color") =>
        LET fig == call.args.fig
        IN IF IsPlotly(fig)
           THEN call.ret =
                   Ok(FirstSet(<<pfig.layout_font_color,
                                 pfig.template_font_color,
                                 IF pioDefault.isStr
                                 THEN RegisteredFontColor(pioDefault.name)
                                 ELSE pioDefault.color>>,
                               {NoColor}, "black"))
           ELSE IF IsMatplotlib(fig)
           THEN LET ax == IF fig.kind = "Axes" THEN fig.id
                          ELSE Last(figAxes[fig.id])
                    c == axColors[ax]
                IN call.ret =
                      Ok(FirstSet(<<c.xlabel, c.ylabel, c.title>>
                                     \o (IF c.ticks = <<>> THEN <<>>
                                         ELSE <<c.ticks[1]>>),
                                  {"auto"},
                                  FirstSet(<<rcTextColor>>, {NoColor}, "black")))
           ELSE call.ret = Raise("TypeError")

(* a plotly figure without a layout font colour got its template's colour, *)
(* the default template having a font colour of its own                    *)
C7_Witness ==
    /\ IsCall("get_font_color")
    /\ IsPlotly(call.args.fig)
    /\ pfig.layout_font_color = NoColor
    /\ pfig.template_font_color = "blue"
    /\ pioDefault = ObjTemplate("green")
    /\ call.ret = Ok("blue")

(* the points of the trace at trace_idx that have both coordinates *)
RemainingPoints(fig, trace_idx) ==
    LET pts == fig.data[trace_idx + 1].pts
    IN {pts[i] : i \in {j \in 1..Len(pts) :
                           pts[j][1] # Missing /\ pts[j][2] # Missing}}

(* C8: get_fig_xy_range on a plotly figure returns linear ranges.  With    *)
(* the renderer the reported bounds of a logarithmic axis are converted by *)
(* 10**bound and those of a linear axis returned as reported; without it   *)
(* the returned (min, max) of each axis bounds every point of the trace at *)
(* trace_idx that has both coordinates, and a linear figure whose data     *)
(* span [0, 10] and [0, 5] gives ((0, 10), (0, 5)).                        *)
C8_LinearRanges ==
    (/\ IsCall("get_fig_xy_range")
     /\ IsPlotly(call.args.fig)
     /\ Returned(call.ret)) =>
        IF kaleido
        THEN /\ call.ret.val[1] =
                   (IF pfig.xaxis_type = "log"
                    THEN <<Pow10(pfig.dev_xrange[1]), Pow10(pfig.dev_xrange[2])>>
                    ELSE pfig.dev_xrange)
             /\ call.ret.val[2] =
                   (IF pfig.yaxis_type = "log"
                    THEN <<Pow10(pfig.dev_yrange[1]), Pow10(pfig.dev_yrange[2])>>
                    ELSE pfig.dev_yrange)
        ELSE LET pts == RemainingPoints(pfig, call.args.trace_idx)
             IN /\ \A p \in pts :
                      /\ call.ret.val[1][1] <= p[1] /\ p[1] <= call.ret.val[1][2]
                      /\ call.ret.val[2][1] <= p[2] /\ p[2] <= call.ret.val[2][2]
                /\ (/\ pfig.xaxis_type = "linear" /\ pfig.yaxis_type = "linear"
                    /\ {p[1] : p \in pts} = {0, 10}
                    /\ {p[2] : p \in pts} = {0, 5}) =>
                       call.ret.val = <<<<0, 10>>, <<0, 5>>>>

(* C9: pretty_label raises ValueError for every key when the backend is    *)
(* not a supported one; otherwise "R2" and "R2_adj" give the label of the  *)
(* backend and any other key comes back unchanged.                         *)
C9_PrettyLabel ==
    IsCall("pretty_label") =>
        LET key == call.args.key
            backend == call.args.backend
        IN IF backend \notin {"matplotlib", "plotly"}
           THEN call.ret = Raise("ValueError")
           ELSE call.ret =
                   Ok(CASE key = "R2" /\ backend = "matplotlib" -> "$R^2$"
                        [] key = "R2" /\ backend = "plotly" -> "R<sup>2</sup>"
                        [] key = "R2_adj" /\ backend = "matplotlib" ->
                              "$R^2_{adj}$"
                        [] key = "R2_adj" /\ backend = "plotly" ->
                              "R<sup>2</sup><sub>adj</sub>"
                        [] OTHER -> key)

(* an unknown key with an unsupported backend raised ValueError *)
C9_Witness ==
    /\ IsCall("pretty_label")
    /\ call.args.key = "unknown_key"
    /\ call.args.backend = "bokeh"
    /\ call.ret = Raise("ValueError")

(* C10: annotate on a matplotlib handle returns the handle and adds        *)
(* exactly one anchored-text box to exactly one axes, the given Axes or    *)
(* the current axes of the given Figure, whichever figure is current in    *)
(* pyplot; the boxes of every other axes and the axes of every other       *)
(* figure stay as they were, and no figure is opened.                      *)
C10_OwnAxes ==
    [][(call'.op = "annotate" /\ IsMatplotlib(call'.args.fig)) =>
           LET fig == call'.args.fig
               own == IF fig.kind = "Axes" THEN AxFig(Mpl, fig.id) ELSE fig.id
               target == IF fig.kind = "Axes" THEN fig.id
                         ELSE Last(figAxes'[fig.id])
           IN /\ call'.ret = Ok(fig)
              /\ figAxes'[own] # <<>>
              /\ Len(axArtists'[target]) = Len(axArtists[target]) + 1
              /\ SubSeq(axArtists'[target], 1, Len(axArtists[target]))
                    = axArtists[target]
              /\ Last(axArtists'[target]).s = call'.args.text
              /\ \A a \in AxIds \ {target} : axArtists'[a] = axArtists[a]
              /\ \A f \in FigIds \ {own} : figAxes'[f] = figAxes[f]
              /\ figState' = figState
              /\ curFig' = curFig]_vars

(* the calls that only read: get_font_color and get_fig_xy_range *)
IsReadCall(c) == c.op \in {"get_font_color", "get_fig_xy_range"}

(* the call c repeats the call b: the same operation with the same         *)
(* arguments                                                               *)
Repeats(b, c) == b.op = c.op /\ b.args = c.args

(* C11: get_font_color and get_fig_xy_range are stateless and idempotent:  *)
(* a call to either leaves the axes of every figure, the traces and        *)
(* annotations of the plotly figure, the anchored boxes, the set of open   *)
(* figures, the current figure and with it the current axes as they were,  *)
(* and a call that repeats the call before it returns the same result.     *)
C11_ReadOnly ==
    [][IsReadCall(call') =>
           /\ figAxes' = figAxes
           /\ figState' = figState
           /\ curFig' = curFig
           /\ axArtists' = axArtists
           /\ pfig' = pfig
           /\ (IsReadCall(call) /\ Repeats(call, call')
                  => call'.ret = call.ret)]_vars

(* the second half of C11 on its own: a call that repeats the call before  *)
(* it returns the same result                                              *)
C11_RepeatSameResult ==
    [][(IsReadCall(call) /\ IsReadCall(call') /\ Repeats(call, call'))
           => call'.ret = call.ret]_vars

====
